---- MODULE Spec2Model ----
(***************************************************************************)
(* Multi-API monitor with auto-recovery: the LangGraph pass of             *)
(* multi_api_monitor.py, the restart workflow of api_restart_manager.py    *)
(* and the scheduler loop run_monitoring.                                  *)
(*                                                                         *)
(* Text is modelled as a sequence of tokens; " " is a whitespace token,    *)
(* "---" the delimiter the drafting response is split on.                  *)
(***************************************************************************)
EXTENDS Integers, Sequences, FiniteSets, TLC

VARIABLES
    sched,      \* position of run_monitoring: "loop", "running", "sleep", "crashed"
    tick,       \* number of completed iterations of the while True loop
    cur,        \* index into API_SERVICES of the for loop
    node,       \* graph node the pass is at ("idle" before the first pass)
    state,      \* the MonitorState of the pass in flight
    prompts,    \* times the options menu was printed by the running human_review
    calls,      \* collaborator calls made by the pass in flight
    trace,      \* graph nodes entered by the pass in flight, in order
    outbox,     \* mails handed to send_email_alert without error, in order
    response,   \* what llm.invoke last returned to agent_analyze in this pass
    restartLog, \* what restart_specific_api did in the pass in flight
    inflight,   \* per service: passes begun and not yet at END
    printed,    \* lines the scheduler printed for the last finished pass
    probed,     \* what requests.get did in check_api_health of this pass
    lastChoice, \* the line human_review last read at its menu
    args,       \* arguments of a function that is called on its own
    result      \* what that call returned

vars ==
    <<sched, tick, cur, node, state, prompts, calls, trace, outbox, response,
      restartLog, inflight, printed, probed, lastChoice, args, result>>

\* The variables of the monitor.
monitorVars ==
    <<sched, tick, cur, node, state, prompts, calls, trace, outbox, response,
      restartLog, inflight, printed, probed, lastChoice>>

----------------------------------------------------------------------------
(* Bounds of the model                                                     *)

MaxTicks ==
    2

MaxPrompts ==
    3

MaxProbePrefix ==
    3

----------------------------------------------------------------------------
(* config.py                                                               *)

API_SERVICES ==
    <<"Multiply API", "Addition API", "Division API">>

ServiceNames ==
    {API_SERVICES[i] : i \in 1..Len(API_SERVICES)}

ServicePort ==
    [n \in ServiceNames |->
        CASE n = "Multiply API" -> 8001
          [] n = "Addition API" -> 8002
          [] n = "Division API" -> 8003]

MONITORING_CONFIG ==
    [check_interval |-> 15,
     restart_delay |-> 30,
     max_restart_attempts |-> 3,
     health_check_attempts |-> 10,
     health_check_wait |-> 3,
     health_check_timeout |-> 5]

DEFAULT_MONITORING_CONFIG ==
    [health_check_attempts |-> 10,
     health_check_wait |-> 3,
     health_check_timeout |-> 5]

----------------------------------------------------------------------------
(* Text helpers: str.split, str.replace, str.strip, "\n".join              *)

RECURSIVE SplitFrom(_, _, _)
SplitFrom(content, sep, acc) ==
    IF content = <<>> THEN <<acc>>
    ELSE IF Head(content) = sep
         THEN <<acc>> \o SplitFrom(Tail(content), sep, <<>>)
         ELSE SplitFrom(Tail(content), sep, Append(acc, Head(content)))

Split(content, sep) ==
    SplitFrom(content, sep, <<>>)

Replace(text, old) ==
    SelectSeq(text, LAMBDA t : t # old)

RECURSIVE LStrip(_)
LStrip(text) ==
    IF text # <<>> /\ Head(text) = " " THEN LStrip(Tail(text)) ELSE text

RECURSIVE RStrip(_)
RStrip(text) ==
    IF text # <<>> /\ text[Len(text)] = " "
    THEN RStrip(SubSeq(text, 1, Len(text) - 1))
    ELSE text

Strip(text) ==
    RStrip(LStrip(text))

RECURSIVE Join(_)
Join(lines) ==
    IF lines = <<>> THEN <<>>
    ELSE IF Len(lines) = 1 THEN Head(lines)
    ELSE Head(lines) \o <<"\n">> \o Join(Tail(lines))

----------------------------------------------------------------------------
(* Configuration values: an int, or something int()/float() rejects        *)

IntVal(n) ==
    [kind |-> "int", v |-> n]

BadVal ==
    [kind |-> "str", v |-> 0]

NoneVal ==
    [kind |-> "none", v |-> 0]

ConfigOf(rec) ==
    [k \in DOMAIN rec |-> IntVal(rec[k])]

_merged_monitoring_config(monitoring_config) ==
    [k \in DOMAIN DEFAULT_MONITORING_CONFIG \cup DOMAIN monitoring_config |->
        IF k \in DOMAIN monitoring_config /\ monitoring_config[k].kind # "none"
        THEN monitoring_config[k]
        ELSE IF k \in DOMAIN DEFAULT_MONITORING_CONFIG
             THEN IntVal(DEFAULT_MONITORING_CONFIG[k])
             ELSE NoneVal]

_to_int(value, default) ==
    IF value.kind = "int" THEN value.v ELSE default

_to_float(value, default) ==
    IF value.kind = "int" THEN value.v ELSE default

\* A key that the configuration dict does not have.
MissingVal ==
    [kind |-> "missing", v |-> 0]

\* The dict with the keys of f that are not missing.
DictOf(f) ==
    [k \in {j \in DOMAIN f : f[j].kind # "missing"} |-> f[k]]

\* dict.get(k, default)
Get(d, k, default) ==
    IF k \in DOMAIN d THEN d[k] ELSE default

\* int(MONITORING_CONFIG.get("check_interval", 15)) and the floor at 1;
\* int() raises on None and on text that is not a number.
check_interval_of(monitoring_config) ==
    LET v == Get(monitoring_config, "check_interval", IntVal(15))
    IN  IF v.kind # "int" THEN [raised |-> TRUE, value |-> 0]
        ELSE [raised |-> FALSE, value |-> IF v.v < 1 THEN 1 ELSE v.v]

\* int(MONITORING_CONFIG.get("restart_delay", 30)) and the floor at 0.
restart_delay_of(monitoring_config) ==
    LET v == Get(monitoring_config, "restart_delay", IntVal(30))
    IN  IF v.kind # "int" THEN [raised |-> TRUE, value |-> 0]
        ELSE [raised |-> FALSE, value |-> IF v.v < 0 THEN 0 ELSE v.v]

----------------------------------------------------------------------------
(* api_restart_manager.py                                                  *)

\* proc is "none" when no process holds the port; killOk is whether
\* proc.kill() and proc.wait(timeout=5) returned without raising.
kill_api_on_port(proc, killOk) ==
    IF proc # "none" THEN killOk ELSE TRUE

\* popenOk is whether subprocess.Popen returned a process.
start_specific_api(api_name, popenOk) ==
    IF api_name \notin ServiceNames THEN FALSE ELSE popenOk

max_attempts_of(cfg) ==
    LET m == _to_int(cfg.health_check_attempts,
                     DEFAULT_MONITORING_CONFIG.health_check_attempts)
    IN  IF m < 1 THEN 1 ELSE m

wait_time_of(cfg) ==
    LET w == _to_float(cfg.health_check_wait,
                       DEFAULT_MONITORING_CONFIG.health_check_wait)
    IN  IF w < 0 THEN 0 ELSE w

timeout_of_unchecked(cfg) ==
    _to_float(cfg.health_check_timeout,
              DEFAULT_MONITORING_CONFIG.health_check_timeout)

timeout_of(cfg) ==
    LET t == _to_float(cfg.health_check_timeout,
                       DEFAULT_MONITORING_CONFIG.health_check_timeout)
    IN  IF t <= 0 THEN DEFAULT_MONITORING_CONFIG.health_check_timeout ELSE t

RECURSIVE verify_loop_skips_last(_, _, _)
verify_loop_skips_last(attempt, max_attempts, probe) ==
    IF attempt >= max_attempts THEN [success |-> FALSE, probes |-> max_attempts]
    ELSE IF probe[attempt] = "200" THEN [success |-> TRUE, probes |-> attempt]
    ELSE verify_loop_skips_last(attempt + 1, max_attempts, probe)

\* The for loop of verify_api_health from attempt on; probe(i) is what the
\* i-th requests.get does: "200", another status, or an exception.
RECURSIVE verify_loop(_, _, _)
verify_loop(attempt, max_attempts, probe) ==
    IF attempt > max_attempts THEN [success |-> FALSE, probes |-> max_attempts]
    ELSE IF probe[attempt] = "200" THEN [success |-> TRUE, probes |-> attempt]
    ELSE verify_loop(attempt + 1, max_attempts, probe)

verify_api_health(api_name, monitoring_config, probe) ==
    IF api_name \notin ServiceNames THEN [success |-> FALSE, probes |-> 0]
    ELSE LET cfg == _merged_monitoring_config(monitoring_config)
         IN  verify_loop(1, max_attempts_of(cfg), probe)

restart_specific_api_reports_launch(api_name, monitoring_config, proc, killOk, popenOk, probe) ==
    IF api_name \notin ServiceNames
    THEN [success |-> FALSE, killed |-> "skipped", launched |-> FALSE, probes |-> 0]
    ELSE LET killed == IF proc = "none" THEN "none"
                       ELSE IF kill_api_on_port(proc, killOk) THEN "killed"
                       ELSE "failed"
             process == start_specific_api(api_name, popenOk)
             v == verify_api_health(api_name, monitoring_config, probe)
         IN  IF ~process
             THEN [success |-> FALSE, killed |-> killed, launched |-> FALSE,
                   probes |-> 0]
             ELSE [success |-> TRUE, killed |-> killed, launched |-> TRUE,
                   probes |-> v.probes]

restart_specific_api_stops_on_kill_failure(api_name, monitoring_config, proc, killOk, popenOk, probe) ==
    IF api_name \notin ServiceNames
    THEN [success |-> FALSE, killed |-> "skipped", launched |-> FALSE, probes |-> 0]
    ELSE LET killed == IF proc = "none" THEN "none"
                       ELSE IF kill_api_on_port(proc, killOk) THEN "killed"
                       ELSE "failed"
             process == start_specific_api(api_name, popenOk)
             v == verify_api_health(api_name, monitoring_config, probe)
         IN  IF killed = "failed" \/ ~process
             THEN [success |-> FALSE, killed |-> killed, launched |-> FALSE,
                   probes |-> 0]
             ELSE [success |-> v.success, killed |-> killed, launched |-> TRUE,
                   probes |-> v.probes]

restart_specific_api(api_name, monitoring_config, proc, killOk, popenOk, probe) ==
    IF api_name \notin ServiceNames
    THEN [success |-> FALSE, killed |-> "skipped", launched |-> FALSE, probes |-> 0]
    ELSE LET killed == IF proc = "none" THEN "none"
                       ELSE IF kill_api_on_port(proc, killOk) THEN "killed"
                       ELSE "failed"
             process == start_specific_api(api_name, popenOk)
             v == verify_api_health(api_name, monitoring_config, probe)
         IN  IF ~process
             THEN [success |-> FALSE, killed |-> killed, launched |-> FALSE,
                   probes |-> 0]
             ELSE [success |-> v.success, killed |-> killed, launched |-> TRUE,
                   probes |-> v.probes]

----------------------------------------------------------------------------
(* multi_api_monitor.py: the nodes of the graph                            *)

initial_state_reuses_dict(api_name) ==
    [api_name |-> api_name,
     api_url |-> <<"http://localhost:", ToString(ServicePort[api_name]), "/health">>,
     api_port |-> ServicePort[api_name],
     api_status |-> "",
     error_details |-> <<>>,
     agent_analysis |-> IF node = "idle" THEN <<>> ELSE state.agent_analysis,
     email_subject |-> IF node = "idle" THEN <<>> ELSE state.email_subject,
     email_body |-> IF node = "idle" THEN <<>> ELSE state.email_body,
     human_approval |-> IF node = "idle" THEN "" ELSE state.human_approval,
     action_taken |-> IF node = "idle" THEN "" ELSE state.action_taken,
     email_sent |-> FALSE,
     restart_attempted |-> FALSE,
     recovery_status |-> IF node = "idle" THEN "" ELSE state.recovery_status,
     recovery_email_sent |-> FALSE]

initial_state(api_name) ==
    [api_name |-> api_name,
     api_url |-> <<"http://localhost:", ToString(ServicePort[api_name]), "/health">>,
     api_port |-> ServicePort[api_name],
     api_status |-> "",
     error_details |-> <<>>,
     agent_analysis |-> <<>>,
     email_subject |-> <<>>,
     email_body |-> <<>>,
     human_approval |-> "",
     action_taken |-> "",
     email_sent |-> FALSE,
     restart_attempted |-> FALSE,
     recovery_status |-> "",
     recovery_email_sent |-> FALSE]

check_api_health_any_response_healthy(st, r) ==
    LET st1 == IF ~r.raised
               THEN [st EXCEPT !.api_status = "healthy",
                         !.error_details = <<st.api_name, "is functioning normally on port",
                                             ToString(st.api_port)>>]
               ELSE [st EXCEPT !.api_status = "down",
                         !.error_details = <<"Connection Error:">> \o r.text
                                           \o <<"\n", "Port:", ToString(st.api_port)>>]
    IN  [st1 EXCEPT !.email_sent = FALSE,
                    !.restart_attempted = FALSE,
                    !.recovery_email_sent = FALSE]

\* r is what requests.get did: [raised, status_code, text].
check_api_health(st, r) ==
    LET st1 == IF ~r.raised
               THEN IF r.status_code = 200
                    THEN [st EXCEPT !.api_status = "healthy",
                              !.error_details = <<st.api_name, "is functioning normally on port",
                                                  ToString(st.api_port)>>]
                    ELSE [st EXCEPT !.api_status = "unhealthy",
                              !.error_details = <<"Status Code:", ToString(r.status_code),
                                                  "\n", "Response:">> \o r.text]
               ELSE [st EXCEPT !.api_status = "down",
                         !.error_details = <<"Connection Error:">> \o r.text
                                           \o <<"\n", "Port:", ToString(st.api_port)>>]
    IN  [st1 EXCEPT !.email_sent = FALSE,
                    !.restart_attempted = FALSE,
                    !.recovery_email_sent = FALSE]

email_type_of(st) ==
    IF st.recovery_status = "success" THEN "recovery" ELSE "alert"

agent_analyze_lenient(st, resp) ==
    IF resp.raised THEN [raised |-> TRUE, state |-> st]
    ELSE LET parts == Split(resp.content, "---")
             part(i) == IF i <= Len(parts) THEN parts[i] ELSE <<>>
         IN  [raised |-> FALSE,
              state |-> [st EXCEPT !.agent_analysis = Strip(Replace(part(1), "ANALYSIS:")),
                                   !.email_subject = Strip(Replace(part(2), "SUBJECT:")),
                                   !.email_body = Strip(Replace(part(3), "EMAIL_BODY:"))]]

\* resp is what llm.invoke did: [raised, content].  The result says whether
\* the node raised and the state dict as the node left it.
agent_analyze(st, resp) ==
    IF resp.raised THEN [raised |-> TRUE, state |-> st]
    ELSE LET parts == Split(resp.content, "---")
             st1 == [st EXCEPT !.agent_analysis = Strip(Replace(parts[1], "ANALYSIS:"))]
         IN  IF Len(parts) < 2 THEN [raised |-> TRUE, state |-> st1]
             ELSE LET st2 == [st1 EXCEPT !.email_subject =
                                            Strip(Replace(parts[2], "SUBJECT:"))]
                  IN  IF Len(parts) < 3 THEN [raised |-> TRUE, state |-> st2]
                      ELSE [raised |-> FALSE,
                            state |-> [st2 EXCEPT !.email_body =
                                          Strip(Replace(parts[3], "EMAIL_BODY:"))]]

attempt_restart(st, success) ==
    [st EXCEPT !.restart_attempted = TRUE,
               !.recovery_status = IF success THEN "success" ELSE "failed"]

human_review_default_approves(st, choice, text) ==
    LET c == Strip(choice)
    IN  IF c = <<"2">> THEN [done |-> TRUE, state |-> [st EXCEPT !.human_approval = "rejected"]]
        ELSE IF c = <<"3">> THEN [done |-> FALSE, state |-> [st EXCEPT !.email_body = Join(text)]]
        ELSE IF c = <<"4">> THEN [done |-> FALSE, state |-> [st EXCEPT !.email_subject = Strip(Head(text))]]
        ELSE [done |-> TRUE, state |-> [st EXCEPT !.human_approval = "approved"]]

\* One iteration of the while True loop of human_review: choice is the line
\* read at the menu, text the lines read by the edit branches.
human_review(st, choice, text) ==
    LET c == Strip(choice)
    IN  IF c = <<"1">> THEN [done |-> TRUE, state |-> [st EXCEPT !.human_approval = "approved"]]
        ELSE IF c = <<"2">> THEN [done |-> TRUE, state |-> [st EXCEPT !.human_approval = "rejected"]]
        ELSE IF c = <<"3">> THEN [done |-> FALSE, state |-> [st EXCEPT !.email_body = Join(text)]]
        ELSE IF c = <<"4">> THEN [done |-> FALSE, state |-> [st EXCEPT !.email_subject = Strip(Head(text))]]
        ELSE [done |-> FALSE, state |-> st]

send_email_action_resets_other_flag(st, smtpOk) ==
    LET is_recovery == st.recovery_status = "success"
        mail == [subject |-> st.email_subject, body |-> st.email_body]
    IN  IF is_recovery /\ st.recovery_email_sent
        THEN [called |-> FALSE, delivered |-> FALSE, mail |-> mail, state |-> st]
        ELSE IF ~is_recovery /\ st.email_sent
        THEN [called |-> FALSE, delivered |-> FALSE, mail |-> mail, state |-> st]
        ELSE IF st.human_approval = "approved"
        THEN IF smtpOk
             THEN [called |-> TRUE, delivered |-> TRUE, mail |-> mail,
                   state |-> [st EXCEPT !.action_taken = "Email sent successfully",
                                        !.recovery_email_sent = is_recovery,
                                        !.email_sent = ~is_recovery]]
             ELSE [called |-> TRUE, delivered |-> FALSE, mail |-> mail,
                   state |-> [st EXCEPT !.action_taken = "Failed to send email"]]
        ELSE [called |-> FALSE, delivered |-> FALSE, mail |-> mail,
              state |-> [st EXCEPT !.action_taken = "Email cancelled by user"]]

send_email_action_ignores_approval(st, smtpOk) ==
    LET is_recovery == st.recovery_status = "success"
        mail == [subject |-> st.email_subject, body |-> st.email_body]
    IN  IF is_recovery /\ st.recovery_email_sent
        THEN [called |-> FALSE, delivered |-> FALSE, mail |-> mail, state |-> st]
        ELSE IF ~is_recovery /\ st.email_sent
        THEN [called |-> FALSE, delivered |-> FALSE, mail |-> mail, state |-> st]
        ELSE IF st.human_approval # ""
        THEN IF smtpOk
             THEN [called |-> TRUE, delivered |-> TRUE, mail |-> mail,
                   state |-> IF is_recovery
                             THEN [st EXCEPT !.action_taken = "Email sent successfully",
                                             !.recovery_email_sent = TRUE]
                             ELSE [st EXCEPT !.action_taken = "Email sent successfully",
                                             !.email_sent = TRUE]]
             ELSE [called |-> TRUE, delivered |-> FALSE, mail |-> mail,
                   state |-> [st EXCEPT !.action_taken = "Failed to send email"]]
        ELSE [called |-> FALSE, delivered |-> FALSE, mail |-> mail,
              state |-> [st EXCEPT !.action_taken = "Email cancelled by user"]]

send_email_action_sets_alert_flag(st, smtpOk) ==
    LET is_recovery == st.recovery_status = "success"
        mail == [subject |-> st.email_subject, body |-> st.email_body]
    IN  IF is_recovery /\ st.recovery_email_sent
        THEN [called |-> FALSE, delivered |-> FALSE, mail |-> mail, state |-> st]
        ELSE IF ~is_recovery /\ st.email_sent
        THEN [called |-> FALSE, delivered |-> FALSE, mail |-> mail, state |-> st]
        ELSE IF st.human_approval = "approved"
        THEN IF smtpOk
             THEN [called |-> TRUE, delivered |-> TRUE, mail |-> mail,
                   state |-> [st EXCEPT !.action_taken = "Email sent successfully",
                                        !.email_sent = TRUE]]
             ELSE [called |-> TRUE, delivered |-> FALSE, mail |-> mail,
                   state |-> [st EXCEPT !.action_taken = "Failed to send email"]]
        ELSE [called |-> FALSE, delivered |-> FALSE, mail |-> mail,
              state |-> [st EXCEPT !.action_taken = "Email cancelled by user"]]

\* smtpOk is whether send_email_alert returned without raising.  The result
\* says whether send_email_alert was called and with what.
send_email_action(st, smtpOk) ==
    LET is_recovery == st.recovery_status = "success"
        mail == [subject |-> st.email_subject, body |-> st.email_body]
    IN  IF is_recovery /\ st.recovery_email_sent
        THEN [called |-> FALSE, delivered |-> FALSE, mail |-> mail, state |-> st]
        ELSE IF ~is_recovery /\ st.email_sent
        THEN [called |-> FALSE, delivered |-> FALSE, mail |-> mail, state |-> st]
        ELSE IF st.human_approval = "approved"
        THEN IF smtpOk
             THEN [called |-> TRUE, delivered |-> TRUE, mail |-> mail,
                   state |-> IF is_recovery
                             THEN [st EXCEPT !.action_taken = "Email sent successfully",
                                             !.recovery_email_sent = TRUE]
                             ELSE [st EXCEPT !.action_taken = "Email sent successfully",
                                             !.email_sent = TRUE]]
             ELSE [called |-> TRUE, delivered |-> FALSE, mail |-> mail,
                   state |-> [st EXCEPT !.action_taken = "Failed to send email"]]
        ELSE [called |-> FALSE, delivered |-> FALSE, mail |-> mail,
              state |-> [st EXCEPT !.action_taken = "Email cancelled by user"]]

should_alert_inverted(st) ==
    IF st.api_status = "healthy" THEN "needs_alert" ELSE "healthy"

should_alert(st) ==
    IF st.api_status = "healthy" THEN "healthy" ELSE "needs_alert"

should_attempt_restart_only_if_sent(st) ==
    IF st.email_sent THEN "attempt_restart" ELSE "skip"

should_attempt_restart(st) ==
    "attempt_restart"

check_recovery_ignores_status(st) ==
    "recovered"

check_recovery_wrong_key(st) ==
    IF st.recovery_status = "recovered" THEN "recovered" ELSE "failed"

check_recovery(st) ==
    IF st.recovery_status = "success" THEN "recovered" ELSE "failed"

\* The edges of create_monitoring_graph: the node entered after n.
NextNode(n, st) ==
    CASE n = "check_health" ->
            IF should_alert(st) = "healthy" THEN "END" ELSE "analyze_alert"
      [] n = "analyze_alert" -> "human_review_alert"
      [] n = "human_review_alert" -> "send_alert_email"
      [] n = "send_alert_email" ->
            IF should_attempt_restart(st) = "attempt_restart"
            THEN "attempt_restart" ELSE "END"
      [] n = "attempt_restart" ->
            IF check_recovery(st) = "recovered" THEN "analyze_recovery" ELSE "END"
      [] n = "analyze_recovery" -> "human_review_recovery"
      [] n = "human_review_recovery" -> "send_recovery_email"
      [] n = "send_recovery_email" -> "END"

----------------------------------------------------------------------------
(* What the collaborators can answer                                       *)

ProbeResponses ==
    {[raised |-> FALSE, status_code |-> 200, text |-> <<"UP">>],
     [raised |-> FALSE, status_code |-> 500, text |-> <<"Internal Server Error">>],
     [raised |-> TRUE, status_code |-> 0, text |-> <<"Connection refused">>]}

\* Responses of the drafting model for a prompt of the given kind: the
\* requested three segments, fewer, more, and the call raising.
LLMResponses(kind) ==
    {[raised |-> FALSE,
      content |-> <<"ANALYSIS:", " ", "analysis", "\n", "---", "\n", "SUBJECT:", " ", kind,
                    "\n", "---", "\n", "EMAIL_BODY:", "\n", "Hi Team,", kind>>],
     [raised |-> FALSE,
      content |-> <<"ANALYSIS:", " ", "analysis", "\n", "---", "\n", "SUBJECT:", " ", kind>>],
     [raised |-> FALSE, content |-> <<"sorry">>],
     [raised |-> FALSE,
      content |-> <<"ANALYSIS:", "analysis", "---", "SUBJECT:", kind, "---",
                    "EMAIL_BODY:", "Hi Team,", "---", "Thanks">>],
     [raised |-> TRUE, content |-> <<>>]}

MenuChoices ==
    {<<"1">>, <<" ", "1">>, <<"2">>, <<"3">>, <<"4">>, <<"9">>, <<>>}

BodyInputs ==
    {<< <<"line1">> >>, << <<"line1">>, <<"line2">> >>}

SubjectInputs ==
    {<< <<" ", "new subject", " ">> >>}

TextInputs(choice) ==
    IF Strip(choice) = <<"3">> THEN BodyInputs
    ELSE IF Strip(choice) = <<"4">> THEN SubjectInputs
    ELSE {<<>>}

Decides(choice) ==
    Strip(choice) \in {<<"1">>, <<"2">>}

\* Which probe of a verification is the first to answer 200: none, the
\* first, the second, the last allowed.
FirstOKs ==
    LET m == max_attempts_of(_merged_monitoring_config(ConfigOf(MONITORING_CONFIG)))
    IN  {0, 1, 2, m}

\* The probes of a verification in which probe number first200 is the
\* first to answer 200 (none when first200 = 0).
ProbeSeq(first200, other) ==
    [i \in 1..(max_attempts_of(_merged_monitoring_config(ConfigOf(MONITORING_CONFIG))) + 1) |->
        IF i = first200 THEN "200" ELSE other]

----------------------------------------------------------------------------
(* The state machine                                                       *)

ZeroCalls ==
    [probe |-> 0, draft_alert |-> 0, draft_recovery |-> 0,
     review_alert |-> 0, review_recovery |-> 0,
     mail_alert |-> 0, mail_recovery |-> 0, restart |-> 0]

NoResponse ==
    [raised |-> FALSE, content |-> <<>>]

NoRestart ==
    [success |-> FALSE, killed |-> "skipped", launched |-> FALSE, probes |-> 0]

NoProbe ==
    [raised |-> FALSE, status_code |-> 0, text |-> <<>>]

NoArgs ==
    [fn |-> "none"]

NoResult ==
    [fn |-> "none"]

NoReport ==
    [api_name |-> "", up |-> FALSE, final_status |-> "", recovered_notified |-> FALSE]

Init ==
    /\ sched = "loop"
    /\ tick = 1
    /\ cur = 1
    /\ node = "idle"
    /\ state = initial_state(API_SERVICES[1])
    /\ prompts = 0
    /\ calls = ZeroCalls
    /\ trace = <<>>
    /\ outbox = <<>>
    /\ response = NoResponse
    /\ restartLog = NoRestart
    /\ inflight = [n \in ServiceNames |-> 0]
    /\ printed = NoReport
    /\ probed = NoProbe
    /\ lastChoice = <<>>
    /\ args = NoArgs
    /\ result = NoResult

InvokeReturned_not_awaited ==
    TRUE

\* graph.invoke has returned: the pass reached END.
InvokeReturned ==
    node = "END"

\* The pass moves to node n.
Enter(n) ==
    /\ node' = n
    /\ trace' = Append(trace, n)
    /\ inflight' = IF n = "END"
                   THEN [inflight EXCEPT ![state.api_name] = @ - 1]
                   ELSE inflight

\* An exception leaves the node, graph.invoke and run_monitoring.
Raise ==
    /\ sched' = "crashed"
    /\ UNCHANGED <<node, trace, inflight>>

\* run_monitoring builds initial_state for service number i and calls graph.invoke.
BeginPass(i) ==
    /\ sched = "loop"
    /\ cur = i
    /\ sched' = "running"
    /\ state' = initial_state(API_SERVICES[i])
    /\ node' = "check_health"
    /\ trace' = <<"check_health">>
    /\ prompts' = 0
    /\ calls' = ZeroCalls
    /\ outbox' = <<>>
    /\ response' = NoResponse
    /\ restartLog' = NoRestart
    /\ inflight' = [inflight EXCEPT ![API_SERVICES[i]] = @ + 1]
    /\ probed' = NoProbe
    /\ lastChoice' = <<>>
    /\ UNCHANGED <<tick, cur, printed, args, result>>

Invoke ==
    \E i \in 1..Len(API_SERVICES) : BeginPass(i)

CheckHealth ==
    /\ sched = "running"
    /\ node = "check_health"
    /\ \E r \in ProbeResponses :
        /\ probed' = r
        /\ state' = check_api_health(state, r)
        /\ Enter(NextNode(node, state'))
    /\ calls' = [calls EXCEPT !.probe = @ + 1]
    /\ UNCHANGED <<sched, tick, cur, prompts, outbox, response, restartLog, printed,
                   lastChoice, args, result>>

Analyze(n, counter) ==
    /\ sched = "running"
    /\ node = n
    /\ \E resp \in LLMResponses(email_type_of(state)) :
        LET res == agent_analyze(state, resp)
        IN  /\ response' = resp
            /\ state' = res.state
            /\ IF res.raised
               THEN Raise
               ELSE Enter(NextNode(n, res.state)) /\ UNCHANGED sched
    /\ calls' = [calls EXCEPT ![counter] = @ + 1]
    /\ prompts' = 0
    /\ UNCHANGED <<tick, cur, outbox, restartLog, printed, probed, lastChoice, args, result>>

AnalyzeAlert ==
    Analyze("analyze_alert", "draft_alert")

AnalyzeRecovery ==
    Analyze("analyze_recovery", "draft_recovery")

\* One answer of the human at the menu of human_review.
Review(n, counter) ==
    /\ sched = "running"
    /\ node = n
    /\ \E c \in MenuChoices :
        /\ Decides(c) \/ prompts + 1 < MaxPrompts
        /\ \E text \in TextInputs(c) :
            LET res == human_review(state, c, text)
            IN  /\ lastChoice' = c
                /\ state' = res.state
                /\ IF res.done
                   THEN Enter(NextNode(n, res.state))
                   ELSE UNCHANGED <<node, trace, inflight>>
    /\ prompts' = IF node' = n THEN prompts + 1 ELSE 0
    /\ calls' = [calls EXCEPT ![counter] = IF prompts = 0 THEN @ + 1 ELSE @]
    /\ UNCHANGED <<sched, tick, cur, outbox, response, restartLog, printed, probed,
                   args, result>>

HumanReviewAlert ==
    Review("human_review_alert", "review_alert")

HumanReviewRecovery ==
    Review("human_review_recovery", "review_recovery")

SendEmail(n, counter) ==
    /\ sched = "running"
    /\ node = n
    /\ \E smtpOk \in BOOLEAN :
        LET res == send_email_action(state, smtpOk)
        IN  /\ state' = res.state
            /\ calls' = [calls EXCEPT ![counter] = IF res.called THEN @ + 1 ELSE @]
            /\ outbox' = IF res.delivered
                         THEN Append(outbox, [at |-> n, subject |-> res.mail.subject,
                                              body |-> res.mail.body])
                         ELSE outbox
            /\ Enter(NextNode(n, res.state))
    /\ lastChoice' = <<>>
    /\ UNCHANGED <<sched, tick, cur, prompts, response, restartLog, printed, probed,
                   args, result>>

SendAlertEmail ==
    SendEmail("send_alert_email", "mail_alert")

SendRecoveryEmail ==
    SendEmail("send_recovery_email", "mail_recovery")

AttemptRestart ==
    /\ sched = "running"
    /\ node = "attempt_restart"
    /\ \E proc \in {"none", "pid"}, killOk \in BOOLEAN, popenOk \in BOOLEAN,
          other \in {"503", "ConnectionError"},
          first200 \in FirstOKs :
        LET r == restart_specific_api(state.api_name, ConfigOf(MONITORING_CONFIG),
                                      proc, killOk, popenOk, ProbeSeq(first200, other))
        IN  /\ restartLog' = r
            /\ state' = attempt_restart(state, r.success)
            /\ Enter(NextNode(node, state'))
    /\ calls' = [calls EXCEPT !.restart = @ + 1]
    /\ UNCHANGED <<sched, tick, cur, prompts, outbox, response, printed, probed,
                   lastChoice, args, result>>

\* graph.invoke returned: the prints after it, and the for loop goes on.
Report ==
    /\ sched = "running"
    /\ InvokeReturned
    /\ printed' = [api_name |-> API_SERVICES[cur],
                   up |-> state.api_status = "healthy",
                   final_status |-> IF state.api_status = "healthy" THEN ""
                                    ELSE state.action_taken,
                   recovered_notified |-> /\ state.api_status # "healthy"
                                          /\ state.recovery_status = "success"]
    /\ IF cur < Len(API_SERVICES)
       THEN cur' = cur + 1 /\ sched' = "loop"
       ELSE cur' = cur /\ sched' = "sleep"
    /\ UNCHANGED <<tick, node, state, prompts, calls, trace, outbox, response,
                   restartLog, inflight, probed, lastChoice, args, result>>

\* time.sleep(check_interval), then the next iteration of while True.
Sleep ==
    /\ sched = "sleep"
    /\ tick < MaxTicks
    /\ tick' = tick + 1
    /\ cur' = 1
    /\ sched' = "loop"
    /\ UNCHANGED <<node, state, prompts, calls, trace, outbox, response,
                   restartLog, inflight, printed, probed, lastChoice, args, result>>

Next ==
    \/ Invoke
    \/ CheckHealth
    \/ AnalyzeAlert
    \/ HumanReviewAlert
    \/ SendAlertEmail
    \/ AttemptRestart
    \/ AnalyzeRecovery
    \/ HumanReviewRecovery
    \/ SendRecoveryEmail
    \/ Report
    \/ Sleep

Spec ==
    Init /\ [][Next]_vars

----------------------------------------------------------------------------
(* The restart manager and the configuration reads, called on their own    *)
(* with any configuration and any behaviour of the process table, of       *)
(* Popen and of the health endpoint.                                       *)

ConfigKeys ==
    {"check_interval", "restart_delay", "health_check_attempts",
     "health_check_wait", "health_check_timeout"}

ConfigValues ==
    [check_interval |-> {IntVal(0), IntVal(20), BadVal, NoneVal, MissingVal},
     restart_delay |-> {IntVal(0 - 1), IntVal(45), BadVal, MissingVal},
     health_check_attempts |-> {IntVal(0), IntVal(2), BadVal, NoneVal, MissingVal},
     health_check_wait |-> {IntVal(0 - 5), IntVal(1), BadVal, MissingVal},
     health_check_timeout |-> {IntVal(0), IntVal(0 - 1), IntVal(7), BadVal, NoneVal}]

MonitoringConfigs ==
    {DictOf(f) : f \in {g \in [ConfigKeys -> UNION {ConfigValues[k] : k \in ConfigKeys}] :
                            \A k \in ConfigKeys : g[k] \in ConfigValues[k]}}

ProbeOutcomes ==
    {"200", "503", "ConnectionError"}

\* The answers of the health endpoint to the probes of one verification:
\* prefix for the first probes, rest for all later ones.
ProbeFn(prefix, rest) ==
    [i \in 1..(DEFAULT_MONITORING_CONFIG.health_check_attempts + MaxProbePrefix) |->
        IF i <= Len(prefix) THEN prefix[i] ELSE rest]

ProbeFns ==
    {ProbeFn(prefix, rest) : prefix \in [1..MaxProbePrefix -> ProbeOutcomes],
                             rest \in ProbeOutcomes}

RestartArgs ==
    [fn : {"restart"},
     api_name : {"Addition API", "Unknown API"},
     config : {DictOf([health_check_attempts |-> a]) :
                    a \in {IntVal(0), IntVal(1), IntVal(3), BadVal, MissingVal}},
     proc : {"none", "pid"},
     killOk : BOOLEAN,
     popenOk : BOOLEAN,
     probe : ProbeFns]

ConfigArgs ==
    [fn : {"config"}, config : MonitoringConfigs]

InitCalls ==
    /\ sched = "loop"
    /\ tick = 1
    /\ cur = 1
    /\ node = "idle"
    /\ state = initial_state(API_SERVICES[1])
    /\ prompts = 0
    /\ calls = ZeroCalls
    /\ trace = <<>>
    /\ outbox = <<>>
    /\ response = NoResponse
    /\ restartLog = NoRestart
    /\ inflight = [n \in ServiceNames |-> 0]
    /\ printed = NoReport
    /\ probed = NoProbe
    /\ lastChoice = <<>>
    /\ args \in RestartArgs \cup ConfigArgs
    /\ result = NoResult

\* The configuration reads of run_monitoring, attempt_restart and
\* verify_api_health.
CallSanitize ==
    /\ args.fn = "config"
    /\ result = NoResult
    /\ result' = LET cfg == _merged_monitoring_config(args.config)
                 IN  [fn |-> "config",
                      check_interval |-> check_interval_of(args.config),
                      restart_delay |-> restart_delay_of(args.config),
                      max_attempts |-> max_attempts_of(cfg),
                      wait_time |-> wait_time_of(cfg),
                      timeout |-> timeout_of(cfg)]
    /\ UNCHANGED <<monitorVars, args>>

CallVerify ==
    /\ args.fn = "restart"
    /\ result = NoResult
    /\ result' = [fn |-> "verify_api_health",
                  r |-> verify_api_health(args.api_name, args.config, args.probe)]
    /\ UNCHANGED <<monitorVars, args>>

CallRestart ==
    /\ args.fn = "restart"
    /\ result = NoResult
    /\ result' = [fn |-> "restart_specific_api",
                  r |-> restart_specific_api(args.api_name, args.config, args.proc,
                                             args.killOk, args.popenOk, args.probe)]
    /\ UNCHANGED <<monitorVars, args>>

NextCalls ==
    \/ CallSanitize
    \/ CallVerify
    \/ CallRestart

SpecCalls ==
    InitCalls /\ [][NextCalls]_vars

----------------------------------------------------------------------------
(* Properties                                                              *)

Unhealthy ==
    state.api_status \in {"unhealthy", "down"}

\* A step of run_monitoring that begins a pass.
PassBegins ==
    sched = "loop" /\ sched' = "running"

\* Number of "---"-delimited segments of a drafting response.
Segments(content) ==
    Cardinality({i \in DOMAIN content : content[i] = "---"}) + 1

\* The transitions of the state machine of the design, in the graph's node names.
PhaseOrder ==
    <<"check_health", "analyze_alert", "human_review_alert", "send_alert_email",
      "attempt_restart", "analyze_recovery", "human_review_recovery",
      "send_recovery_email", "END">>

PhaseTransitions ==
    {<<PhaseOrder[i], PhaseOrder[i + 1]>> : i \in 1..(Len(PhaseOrder) - 1)}
        \cup {<<"check_health", "END">>, <<"attempt_restart", "END">>}

\* C1: a pass whose probe classified the service as healthy is at END right
\* after the probe, having entered no other node and made no call to the
\* drafting model, the human review, the mail delivery or the restarter.
C1_HealthyPassDoesNothing ==
    state.api_status = "healthy" =>
        /\ node = "END"
        /\ trace = <<"check_health", "END">>
        /\ calls = [ZeroCalls EXCEPT !.probe = 1]
        /\ outbox = <<>>

C1_Witness ==
    /\ state.api_status = "healthy"
    /\ node = "END"
    /\ calls.probe = 1
    /\ state.api_name = "Addition API"

\* C2: in a pass whose probe was unhealthy or unreachable the alert is
\* drafted exactly once and mail delivery for the alert is called at most
\* once; within a pass neither email_sent nor recovery_email_sent ever goes
\* from true back to false, so each rises at most once.
C2_AlertOnceFlagsMonotone ==
    /\ [](Unhealthy =>
            /\ calls.draft_alert <= 1
            /\ calls.mail_alert <= 1
            /\ (node # "analyze_alert" \/ sched = "crashed") => calls.draft_alert = 1
            /\ state.email_sent => calls.mail_alert = 1
            /\ state.recovery_email_sent => calls.mail_recovery = 1)
    /\ [][~PassBegins =>
            /\ state.email_sent => state'.email_sent
            /\ state.recovery_email_sent => state'.recovery_email_sent]_vars

C2_Witness ==
    /\ Unhealthy
    /\ node = "END"
    /\ state.email_sent
    /\ state.recovery_email_sent
    /\ calls.draft_alert = 1
    /\ calls.mail_alert = 1

\* C3: when the human rejected the alert, send_alert_email calls no mail
\* delivery, leaves email_sent false and the pass enters attempt_restart,
\* where the restarter is invoked.
C3_RejectedAlertStillRestarts ==
    /\ [][(node = "send_alert_email" /\ state.human_approval = "rejected"
           /\ node' # node) =>
            /\ node' = "attempt_restart"
            /\ calls'.mail_alert = 0
            /\ outbox' = <<>>
            /\ ~state'.email_sent]_vars
    /\ [][(node = "attempt_restart" /\ node' # node) =>
            calls'.restart = 1]_vars

C3_Witness ==
    /\ node = "END"
    /\ state.human_approval = "rejected"
    /\ state.recovery_status = "failed"
    /\ calls.restart = 1
    /\ calls.mail_alert = 0
    /\ ~state.email_sent

\* C4: when the restarter reports failure (launch failed, or verification
\* used all health_check_attempts probes without a 200) the pass is at END
\* with recovery_status = failed and has no recovery draft, review or
\* delivery call.
C4_FailedRestartEndsPass ==
    (calls.restart = 1 /\ ~restartLog.success) =>
        /\ state.recovery_status = "failed"
        /\ node = "END"
        /\ trace[Len(trace) - 1] = "attempt_restart"
        /\ calls.draft_recovery = 0
        /\ calls.review_recovery = 0
        /\ calls.mail_recovery = 0
        /\ ~state.recovery_email_sent

C4_Witness ==
    /\ calls.restart = 1
    /\ restartLog.launched
    /\ ~restartLog.success
    /\ restartLog.probes = MONITORING_CONFIG.health_check_attempts
    /\ node = "END"

\* C5: when the restarter reports success the pass makes exactly one
\* recovery draft call and at most one recovery mail delivery call.
C5_RecoveryDraftedOnce ==
    (calls.restart = 1 /\ restartLog.success) =>
        /\ state.recovery_status = "success"
        /\ calls.draft_recovery <= 1
        /\ calls.mail_recovery <= 1
        /\ (node # "analyze_recovery" \/ sched = "crashed") => calls.draft_recovery = 1
        /\ node = "END" => Len(outbox) <= calls.mail_alert + 1

C5_Witness ==
    /\ calls.restart = 1
    /\ restartLog.success
    /\ restartLog.probes = 2
    /\ node = "END"
    /\ calls.draft_recovery = 1
    /\ calls.mail_recovery = 1

\* C6: when the alert draft comes back with fewer than three segments the
\* pass stops in analyze_alert with an exception: no review, no mail
\* delivery, no restart, nothing sent.
C6_ShortDraftFailsFast ==
    (calls.draft_alert = 1 /\ calls.draft_recovery = 0 /\ ~response.raised
     /\ Segments(response.content) < 3) =>
        /\ sched = "crashed"
        /\ node = "analyze_alert"
        /\ calls.review_alert = 0
        /\ calls.mail_alert = 0
        /\ calls.mail_recovery = 0
        /\ calls.restart = 0
        /\ outbox = <<>>

C6_Witness ==
    /\ calls.draft_alert = 1
    /\ ~response.raised
    /\ Segments(response.content) = 2
    /\ sched = "crashed"
    /\ state.email_subject # <<>>

\* C7: no collaborator failure terminates the scheduler loop.
C7_SchedulerSurvivesFailures ==
    sched # "crashed"

\* C8: a pass begins only when the previous pass reached END, and no
\* service ever has two passes in flight.
C8_NoOverlappingPasses ==
    /\ [](\A n \in ServiceNames : inflight[n] <= 1)
    /\ [][PassBegins => (node \in {"idle", "END"}
                         /\ \A n \in ServiceNames : inflight[n] = 0)]_vars

C8_Witness ==
    /\ tick = 2
    /\ node = "attempt_restart"
    /\ state.api_name = "Multiply API"
    /\ inflight["Multiply API"] = 1

\* C9: while a pass waits in the human review (or in the restart), the
\* services not yet probed in this tick can begin their pass.
C9_ReviewDoesNotDelayOthers ==
    (sched = "running"
     /\ node \in {"human_review_alert", "human_review_recovery", "attempt_restart"}) =>
        \A i \in 1..Len(API_SERVICES) : i > cur => ENABLED BeginPass(i)

\* C10: the nodes entered in a pass form a path of the state machine from
\* check_health, every node is run at most once, and the restarter is
\* invoked at most once and only after send_alert_email has run.
C10_PhasesFollowStateMachine ==
    node # "idle" =>
        /\ trace # <<>>
        /\ trace[1] = "check_health"
        /\ trace[Len(trace)] = node
        /\ \A i \in 1..(Len(trace) - 1) : <<trace[i], trace[i + 1]>> \in PhaseTransitions
        /\ \A k \in DOMAIN calls : calls[k] <= 1
        /\ calls.restart = 1 =>
              \E i, j \in DOMAIN trace :
                  /\ i < j
                  /\ trace[i] = "send_alert_email"
                  /\ trace[j] = "attempt_restart"
        /\ calls.draft_recovery + calls.review_recovery + calls.mail_recovery > 0 =>
              calls.restart = 1

C10_Witness ==
    /\ trace = PhaseOrder
    /\ calls.restart = 1
    /\ calls.mail_recovery = 1

\* The service is one of API_SERVICES.
KnownService(api_name) ==
    \E i \in 1..Len(API_SERVICES) : API_SERVICES[i] = api_name

\* The number of verification probes the configuration allows: the
\* configured health_check_attempts, at least 1, and 10 when it is not a number.
AllowedProbes(config) ==
    LET a == Get(config, "health_check_attempts", MissingVal)
    IN  IF a.kind = "int" THEN (IF a.v < 1 THEN 1 ELSE a.v) ELSE 10

\* One of the allowed probes answers 200.
SomeProbeOK(config, probe) ==
    \E i \in 1..AllowedProbes(config) : probe[i] = "200"

\* C11: restart_specific_api returns success exactly when the service was
\* launched and the verification succeeded; when the launch fails or the
\* service is unknown it returns failure and no verification probe is made.
C11_RestartSuccessIffVerified ==
    result.fn = "restart_specific_api" =>
        LET launched == KnownService(args.api_name) /\ args.popenOk
        IN  /\ result.r.launched = launched
            /\ result.r.success = (launched /\ SomeProbeOK(args.config, args.probe))
            /\ ~launched => (~result.r.success /\ result.r.probes = 0)
            /\ launched => result.r.probes >= 1

C11_Witness ==
    /\ result.fn = "restart_specific_api"
    /\ args.api_name = "Addition API"
    /\ ~args.popenOk
    /\ args.probe[1] = "200"
    /\ ~result.r.success
    /\ result.r.probes = 0

StatedDefault ==
    [check_interval |-> 15, restart_delay |-> 30, health_check_attempts |-> 10,
     health_check_wait |-> 3, health_check_timeout |-> 5]

\* C13: every numeric configuration field falls back to its default when
\* the value is missing or not a number, and no read raises; check_interval
\* is at least 1 and restart_delay at least 0.
C13_NumericFieldsFallBack ==
    result.fn = "config" =>
        LET used == [check_interval |-> result.check_interval.value,
                     restart_delay |-> result.restart_delay.value,
                     health_check_attempts |-> result.max_attempts,
                     health_check_wait |-> result.wait_time,
                     health_check_timeout |-> result.timeout]
        IN  /\ ~result.check_interval.raised
            /\ ~result.restart_delay.raised
            /\ \A k \in ConfigKeys :
                  Get(args.config, k, MissingVal).kind # "int" => used[k] = StatedDefault[k]
            /\ used.check_interval >= 1
            /\ used.restart_delay >= 0

\* send_email_alert was called for the alert in this pass and raised.
AlertDeliveryFailed ==
    calls.mail_alert = 1 /\ ~state.email_sent

RecoveryDeliveryFailed ==
    calls.mail_recovery = 1 /\ ~state.recovery_email_sent

\* C14: a mail delivery that raised is not retried and is recorded in the
\* outcome of the pass: at END the final status still reports the failed
\* delivery, also when the recovery mail of the same pass was sent.
C14_DeliveryFailureInOutcome ==
    /\ calls.mail_alert <= 1
    /\ calls.mail_recovery <= 1
    /\ (node = "END" /\ (AlertDeliveryFailed \/ RecoveryDeliveryFailed)) =>
          state.action_taken = "Failed to send email"

\* C15: every pass starts from a clean state: when a pass begins, nothing
\* of the state, the counters or the mails of an earlier pass is left.
C15_PassStartsClean ==
    [][PassBegins =>
        /\ state'.api_name = API_SERVICES[cur]
        /\ state'.api_status = ""
        /\ state'.error_details = <<>>
        /\ state'.agent_analysis = <<>>
        /\ state'.email_subject = <<>>
        /\ state'.email_body = <<>>
        /\ state'.human_approval = ""
        /\ state'.action_taken = ""
        /\ ~state'.email_sent
        /\ ~state'.restart_attempted
        /\ state'.recovery_status = ""
        /\ ~state'.recovery_email_sent
        /\ node' = "check_health"]_vars

\* A pass has begun after an earlier pass ended recovered and notified.
C15_Witness ==
    /\ tick = 2
    /\ node = "check_health"
    /\ state.api_name = "Multiply API"
    /\ printed.recovered_notified
    /\ printed.final_status = "Email sent successfully"
    /\ state.recovery_status = ""
    /\ state.human_approval = ""

\* text occurs in detail as a contiguous run of tokens.
Contains(detail, text) ==
    \E i \in 1..(Len(detail) - Len(text) + 1) :
        SubSeq(detail, i, i + Len(text) - 1) = text

\* C16: the health probe never raises: a 200 gives healthy, another status
\* gives unhealthy with the status and the body in the detail, an
\* exception of the request gives down with the error text in the detail.
C16_ProbeNeverRaises ==
    /\ [](calls.probe = 1 =>
            /\ (~probed.raised /\ probed.status_code = 200) =>
                    state.api_status = "healthy"
            /\ (~probed.raised /\ probed.status_code # 200) =>
                    /\ state.api_status = "unhealthy"
                    /\ Contains(state.error_details, <<ToString(probed.status_code)>>)
                    /\ Contains(state.error_details, probed.text)
            /\ probed.raised =>
                    /\ state.api_status = "down"
                    /\ Contains(state.error_details, probed.text))
    /\ [][node = "check_health" => sched' = sched]_vars

C16_Witness ==
    /\ calls.probe = 1
    /\ ~probed.raised
    /\ probed.status_code = 500
    /\ state.api_status = "unhealthy"
    /\ node = "analyze_alert"

\* What restart_specific_api does after the locate-and-terminate step.
AfterTerminate(r) ==
    [success |-> r.success, launched |-> r.launched, probes |-> r.probes]

\* C17: the outcome of locate-and-terminate does not change what the
\* restarter does next: with no process on the port, with the process
\* terminated and with a failed termination, the launch, the verification
\* and the result are the same.
C17_TerminateOutcomeIrrelevant ==
    result.fn = "restart_specific_api" =>
        /\ \A proc \in {"none", "pid"}, killOk \in BOOLEAN :
              AfterTerminate(restart_specific_api(args.api_name, args.config, proc, killOk,
                                                  args.popenOk, args.probe))
                  = AfterTerminate(result.r)
        /\ KnownService(args.api_name) =>
              /\ result.r.launched = args.popenOk
              /\ result.r.killed = (IF args.proc = "none" THEN "none"
                                    ELSE IF args.killOk THEN "killed" ELSE "failed")

C17_Witness ==
    /\ result.fn = "restart_specific_api"
    /\ args.proc = "pid"
    /\ ~args.killOk
    /\ result.r.killed = "failed"
    /\ result.r.launched
    /\ result.r.success

\* C18: the verification makes at most the allowed number of probes, stops
\* with success at the first probe that answers 200, fails only when all
\* allowed probes were made without a 200; a probe that raises is one
\* failed attempt.
C18_VerificationLoopBounded ==
    (result.fn = "verify_api_health" /\ KnownService(args.api_name)) =>
        LET m == AllowedProbes(args.config)
            n == result.r.probes
        IN  /\ n >= 1
            /\ n <= m
            /\ \A i \in 1..(n - 1) : args.probe[i] # "200"
            /\ result.r.success => args.probe[n] = "200"
            /\ ~result.r.success => (n = m /\ args.probe[n] # "200")

C18_Witness ==
    /\ result.fn = "verify_api_health"
    /\ KnownService(args.api_name)
    /\ AllowedProbes(args.config) = 3
    /\ args.probe[1] = "ConnectionError"
    /\ args.probe[2] = "200"
    /\ args.probe[3] = "200"
    /\ result.r.success
    /\ result.r.probes = 2

ReviewNodes ==
    {"human_review_alert", "human_review_recovery"}

\* What a line typed at the menu asks for.
Asked(line) ==
    CASE line \in {<<"1">>, <<" ", "1">>} -> "approve"
      [] line = <<"2">> -> "reject"
      [] line = <<"3">> -> "edit body"
      [] line = <<"4">> -> "edit subject"
      [] OTHER -> "invalid"

\* C19: in the review loop an invalid choice changes nothing, edit-body
\* changes only the body, edit-subject only the subject, and all three
\* prompt again; the loop ends only on approve or reject, which change only
\* the approval; the mail that is delivered has the subject and body the
\* review ended with.
C19_ReviewLoopFrame ==
    /\ [][(node \in ReviewNodes /\ vars' # vars) =>
            LET asked == Asked(lastChoice')
            IN  /\ asked = "approve" =>
                      /\ node' # node
                      /\ state' = [state EXCEPT !.human_approval = "approved"]
                /\ asked = "reject" =>
                      /\ node' # node
                      /\ state' = [state EXCEPT !.human_approval = "rejected"]
                /\ asked = "edit body" =>
                      /\ node' = node
                      /\ prompts' = prompts + 1
                      /\ state' = [state EXCEPT !.email_body = state'.email_body]
                /\ asked = "edit subject" =>
                      /\ node' = node
                      /\ prompts' = prompts + 1
                      /\ state' = [state EXCEPT !.email_subject = state'.email_subject]
                /\ asked = "invalid" =>
                      /\ node' = node
                      /\ prompts' = prompts + 1
                      /\ state' = state]_vars
    /\ [][Len(outbox') > Len(outbox) =>
            /\ state.human_approval = "approved"
            /\ outbox' = Append(outbox, [at |-> node, subject |-> state.email_subject,
                                         body |-> state.email_body])]_vars

\* The alert was edited twice (body, subject), approved and delivered as edited.
C19_Witness ==
    /\ node = "attempt_restart"
    /\ Len(outbox) = 1
    /\ outbox[1].subject = <<"new subject">>
    /\ outbox[1].body = <<"line1", "\n", "line2">>
    /\ state.email_sent

\* A step of the pass in flight.
PassStep ==
    \/ CheckHealth
    \/ AnalyzeAlert
    \/ HumanReviewAlert
    \/ SendAlertEmail
    \/ AttemptRestart
    \/ AnalyzeRecovery
    \/ HumanReviewRecovery
    \/ SendRecoveryEmail

\* C20: a pass is entered at check_health, probes once, nothing of the
\* pass runs after END, and as long as every call of a collaborator has
\* returned the pass stops only at END.
C20_PassStopsOnlyAtDone ==
    node # "idle" =>
        /\ trace[1] = "check_health"
        /\ calls.probe <= 1
        /\ node = "END" => ~ENABLED PassStep
        /\ (~response.raised /\ ~ENABLED PassStep) => node = "END"

AlertNodes ==
    {"analyze_alert", "human_review_alert", "send_alert_email"}

RecoveryNodes ==
    {"analyze_recovery", "human_review_recovery", "send_recovery_email"}

\* C21: recovery_status tells the shared nodes the kind of the mail and
\* agrees with the phase: it is never success in the alert nodes and always
\* success in the recovery nodes; send_alert_email touches only email_sent,
\* send_recovery_email only recovery_email_sent, and the recovery mail is
\* delivered only when the human approved at human_review_recovery.
C21_KindMatchesPhase ==
    /\ [](/\ node \in AlertNodes => state.recovery_status # "success"
          /\ node \in RecoveryNodes => state.recovery_status = "success"
          /\ \A i \in DOMAIN outbox :
                /\ outbox[i].at = "send_alert_email" => (i = 1 /\ state.email_sent)
                /\ outbox[i].at = "send_recovery_email" => state.recovery_email_sent
          /\ state.email_sent => outbox # <<>> /\ outbox[1].at = "send_alert_email"
          /\ state.recovery_email_sent =>
                outbox # <<>> /\ outbox[Len(outbox)].at = "send_recovery_email")
    /\ [][(node = "send_alert_email" /\ node' # node) =>
            /\ state'.recovery_email_sent = state.recovery_email_sent
            /\ state'.email_sent = (Len(outbox') > Len(outbox))]_vars
    /\ [][(node = "send_recovery_email" /\ node' # node) =>
            /\ state'.email_sent = state.email_sent
            /\ state'.recovery_email_sent = (Len(outbox') > Len(outbox))
            /\ Len(outbox') > Len(outbox) => Asked(lastChoice) = "approve"]_vars

\* The alert was approved and sent, the recovery mail was rejected and not sent.
C21_Witness ==
    /\ node = "END"
    /\ state.recovery_status = "success"
    /\ state.email_sent
    /\ Len(outbox) = 1
    /\ state.human_approval = "rejected"
    /\ ~state.recovery_email_sent
    /\ calls.mail_recovery = 0

\* C22: when the scheduler has printed for a pass that the service was
\* recovered and the notification sent, the recovery mail of that pass was
\* delivered.
C22_ReportedNotificationWasSent ==
    (node = "END" /\ sched \in {"loop", "sleep"}
     /\ printed.api_name = state.api_name /\ printed.recovered_notified) =>
        /\ state.recovery_email_sent
        /\ outbox # <<>>
        /\ outbox[Len(outbox)].at = "send_recovery_email"

====
